---- MODULE Spec2Model ----
(***************************************************************************)
(* The list/todo synchronizer of src/src/App.tsx with the client hook of   *)
(* src/src/lib/supabase.ts (useSupabase).                                  *)
(*                                                                         *)
(* React semantics kept by the model:                                      *)
(*  - a function created during a render reads the state of THAT render   *)
(*    (its closure).  A user event runs the handlers of the latest render; *)
(*    an effect, a change-feed callback and every continuation after an    *)
(*    await keep the values of the render that created them (Env).         *)
(*  - an effect with dependencies runs after the commit in which one of    *)
(*    them changed, its previous cleanup first.                            *)
(*  - await suspends: every remote call is an in-flight task that the      *)
(*    store serves at some later step and whose response is delivered at a *)
(*    still later step, in any order relative to other tasks.              *)
(***************************************************************************)
EXTENDS Integers, Sequences, FiniteSets, Bags, TLC

(* ------------------------------ bounds -------------------------------- *)
MaxId == 3
MaxTasks == 2
MaxTodos == 2
MaxTokenReqs == 1
MaxEvents == 1
MaxIntents == 3

(* ----------------------------- constants ------------------------------ *)
EmptyId == 0

Sessions == {"s1"}
NoSession == {"undefined", "null"}
Titles == {"Work"}

VARIABLES
  mounted,        \* the component has had its first commit and mount effects
  session,        \* useSession().session: "undefined" (loading), "null", or a session
  supabase,       \* useSupabase() state: "undefined", "anon", or the session whose token it carries
  tokenReqs,      \* pending session.getToken() calls, per session
  lists,          \* useState<TodoList[]>
  activeListId,   \* useState<string>, EmptyId is ''
  isInitialized,  \* useState(false)
  isCreatingList, \* useState(false)
  channels,       \* live change-feed subscriptions, each with the closure of its callback
  subCleanup,     \* the cleanup returned by the last run of the subscription effect
  pendingEvents,  \* change-feed notifications not yet delivered to the callback
  tasks,          \* bag of in-flight asynchronous operations
  remote,         \* the todo_lists table, most recently updated first
  nextId,         \* the next value of uuidv4()
  inserted,       \* history: ids of the rows the store has accepted by insert
  loaded,         \* history: a select response has been handled since mount
  intents         \* the number of user intents and identity changes so far

vars == <<mounted, session, supabase, tokenReqs, lists, activeListId, isInitialized,
          isCreatingList, channels, subCleanup, pendingEvents, tasks, remote, nextId,
          inserted, loaded, intents>>

(* ------------------------- identity provider -------------------------- *)
UserOf(s) == IF s = "s1" THEN "u1" ELSE "none"

SignedIn(s) == s \in Sessions

isSignedIn == SignedIn(session)

user == UserOf(session)

(* ------------------------------ helpers ------------------------------- *)
Range(s) == {s[i] : i \in 1..Len(s)}

Ids(s) == {s[i].id : i \in 1..Len(s)}

Map(s, F(_)) == [i \in 1..Len(s) |-> F(s[i])]

Filter(s, P(_)) == SelectSeq(s, P)

Sum(f) == LET S == DOMAIN f
              RECURSIVE Acc(_)
              Acc(T) == IF T = {} THEN 0
                        ELSE LET x == CHOOSE y \in T : TRUE IN f[x] + Acc(T \ {x})
          IN Acc(S)

(* ------------------------------ data ---------------------------------- *)
TodoList(id, name, todos) == [id |-> id, name |-> name, todos |-> todos]

DefaultList(id) == TodoList(id, "My Tasks", <<>>)

NewList(id) == TodoList(id, "Untitled List", <<>>)

NewTodo(id) == [id |-> id, title |-> <<>>, completed |-> FALSE, level |-> 0, isEmpty |-> TRUE]

Env(s, client, active, creating) ==
  [session |-> s, supabase |-> client, activeListId |-> active, isCreatingList |-> creating]

CurrentEnv == Env(session, supabase, activeListId, isCreatingList)

Request(op, id, name, todos) == [op |-> op, id |-> id, name |-> name, todos |-> todos]

Select == Request("select", EmptyId, "", <<>>)

Pending == [st |-> "pending", data |-> <<>>]

Frame(fn, id) == [fn |-> fn, id |-> id]

Task(env, stack, req) == [env |-> env, stack |-> stack, req |-> req, resp |-> Pending]

NumTasks == BagCardinality(tasks)

Row(id, name, todos, uid) == [id |-> id, name |-> name, todos |-> todos, user_id |-> uid]

State(l, a, i, c) == [lists |-> l, activeListId |-> a, isInitialized |-> i, isCreatingList |-> c]

CurrentState == State(lists, activeListId, isInitialized, isCreatingList)

Commit(st) ==
  /\ lists' = st.lists
  /\ activeListId' = st.activeListId
  /\ isInitialized' = st.isInitialized
  /\ isCreatingList' = st.isCreatingList

(* ------------------------- async call frames -------------------------- *)
(* A task is one top-level asynchronous call.  Its stack holds the frames  *)
(* of the async functions that are suspended in it; the last frame is the  *)
(* one awaiting the outstanding remote request.  A "fetch" frame with a    *)
(* non-empty id is fetchTodoLists suspended at line 105 with that          *)
(* defaultList.                                                            *)

RECURSIVE Unwind(_, _)
\* The callers resume, innermost first, once the awaited call has returned.
Unwind(callers, st) ==
  IF callers = <<>> THEN st
  ELSE LET f == callers[Len(callers)]
           rest == SubSeq(callers, 1, Len(callers) - 1)
       IN CASE f.fn = "create" ->   \* lines 156, 161
                 Unwind(rest, [st EXCEPT !.activeListId = f.id, !.isCreatingList = FALSE])
            [] f.fn = "fetch" ->    \* lines 106-109
                 Unwind(rest, [st EXCEPT !.lists = <<DefaultList(f.id)>>,
                                         !.activeListId = f.id,
                                         !.isInitialized = TRUE])
            [] OTHER -> Unwind(rest, st)   \* deleteList has nothing after line 184

Returned(callers, st) ==
  [done |-> TRUE, stack |-> <<>>, req |-> Select, st |-> Unwind(callers, st)]

Suspended(stack, req, st) ==
  [done |-> FALSE, stack |-> stack, req |-> req, st |-> st]

\* fetchTodoLists up to its await (lines 78-86)
fetchTodoListsCall(env, callers, st) ==
  IF env.supabase = "undefined" THEN Returned(callers, st)
  ELSE Suspended(Append(callers, Frame("fetch", EmptyId)), Select, st)

\* The single-flight guard of createList (line 134), read from the closure.
createListGuard(env) == env.isCreatingList

\* createList up to its await (lines 133-151), with its finally when it does not suspend
createListCall(env, list, callers, st) ==
  IF createListGuard(env) THEN Returned(callers, st)
  ELSE LET st1 == [st EXCEPT !.isCreatingList = TRUE] IN
       IF ~SignedIn(env.session)
       THEN Returned(callers, [st1 EXCEPT !.lists = Append(@, list),
                                          !.activeListId = list.id,
                                          !.isCreatingList = FALSE])
       ELSE IF env.supabase # "undefined"
       THEN Suspended(Append(callers, Frame("create", list.id)),
                      Request("insert", list.id, list.name, list.todos), st1)
       ELSE Returned(callers, [st1 EXCEPT !.isCreatingList = FALSE])

\* fetchTodoLists after its await (lines 88-112); fresh is the uuidv4() of line 101
fetchTodoListsResume(env, callers, resp, st, fresh) ==
  IF resp.st = "error" THEN Returned(callers, st)
  ELSE IF Len(resp.data) > 0
  THEN Returned(callers,
         [st EXCEPT !.lists = resp.data,
                    !.activeListId = IF env.activeListId = EmptyId THEN resp.data[1].id ELSE @,
                    !.isInitialized = TRUE])
  ELSE createListCall(env, DefaultList(fresh), Append(callers, Frame("fetch", fresh)), st)

\* createList after the insert (lines 153-162)
createListResume(env, callers, id, resp, st) ==
  IF resp.st = "error" THEN Returned(callers, [st EXCEPT !.isCreatingList = FALSE])
  ELSE fetchTodoListsCall(env, Append(callers, Frame("create", id)), st)

\* deleteList after the delete (lines 182-187)
deleteListResume(env, callers, resp, st) ==
  IF resp.st = "error" THEN Returned(callers, st)
  ELSE fetchTodoListsCall(env, Append(callers, Frame("delete", EmptyId)), st)

\* A new top-level call: r is what it did up to its first await.
Start(env, r) ==
  /\ Commit(r.st)
  /\ IF r.done THEN tasks' = tasks
     ELSE /\ NumTasks < MaxTasks
          /\ tasks' = tasks (+) SetToBag({Task(env, r.stack, r.req)})

\* Task t goes on after its response: it suspends again or ends.
Resume(t, r) ==
  /\ Commit(r.st)
  /\ tasks' = IF r.done THEN tasks (-) SetToBag({t})
              ELSE (tasks (-) SetToBag({t})) (+) SetToBag({Task(t.env, r.stack, r.req)})

Top(t) == t.stack[Len(t.stack)]

Callers(t) == SubSeq(t.stack, 1, Len(t.stack) - 1)

\* One more user intent or identity change, within the bound on their number
Intent == intents < MaxIntents /\ intents' = intents + 1

(* ------------------------------ effects ------------------------------- *)
\* The cleanup forgotten: the effect returns nothing to run.
removeChannelNever(chs, cleanup) == chs

\* supabase.removeChannel(channel) of the cleanup (lines 57-59)
removeChannel(chs, cleanup) ==
  IF cleanup = <<>> THEN chs
  ELSE LET i == CHOOSE j \in 1..Len(chs) : chs[j] = cleanup[1]
       IN SubSeq(chs, 1, i - 1) \o SubSeq(chs, i + 1, Len(chs))

\* The condition of both effects (lines 40 and 64); user is set exactly when signed in.
effectGuard(e) == SignedIn(e.session) /\ e.supabase # "undefined"

\* The subscription effect (lines 39-61) of the commit rendered with e
SubscriptionEffect(e) ==
  LET cleaned == removeChannel(channels, subCleanup) IN
  /\ channels' = IF effectGuard(e) THEN Append(cleaned, e) ELSE cleaned
  /\ subCleanup' = IF effectGuard(e) THEN <<e>> ELSE <<>>
  /\ pendingEvents' = 0

\* The test of isInitialized forgotten at line 66.
needsDefaultUnguarded(e, inited) == ~effectGuard(e)

\* The second branch of the initialization effect is taken (line 66).
needsDefault(e, inited) == ~effectGuard(e) /\ ~inited

\* The initialization effect (lines 63-76) of the commit rendered with e and st
InitEffect(e, st) ==
  IF effectGuard(e)
  THEN /\ Start(e, fetchTodoListsCall(e, <<>>, st))
       /\ nextId' = nextId
  ELSE IF needsDefault(e, st.isInitialized)
  THEN /\ nextId <= MaxId
       /\ Commit(State(<<DefaultList(nextId)>>, nextId, TRUE, st.isCreatingList))
       /\ nextId' = nextId + 1
       /\ tasks' = tasks
  ELSE /\ Commit(st)
       /\ UNCHANGED <<nextId, tasks>>

\* First commit: supabase is still undefined when the mount effects run
\* (supabase.ts 32, 34-45; App.tsx 39-76).
Mount ==
  /\ ~mounted
  /\ mounted' = TRUE
  /\ IF SignedIn(session)
     THEN /\ tokenReqs' = [tokenReqs EXCEPT ![session] = @ + 1]
          /\ supabase' = supabase
     ELSE /\ tokenReqs' = tokenReqs
          /\ supabase' = "anon"
  /\ SubscriptionEffect(CurrentEnv)
  /\ InitEffect(CurrentEnv, CurrentState)
  /\ UNCHANGED <<session, remote, inserted, loaded, intents>>

\* The identity provider reports another session (or none): useSession, useUser.
\* A session starts getToken (supabase.ts 36-37); no session sets the anonymous
\* client at once (supabase.ts 40), and the commit that follows finds the user
\* signed out, so its effects do nothing more.
SessionChange(s) ==
  /\ mounted
  /\ s # session
  /\ session' = s
  /\ IF SignedIn(s)
     THEN /\ Sum(tokenReqs) < MaxTokenReqs
          /\ tokenReqs' = [tokenReqs EXCEPT ![s] = @ + 1]
          /\ supabase' = supabase
     ELSE /\ tokenReqs' = tokenReqs
          /\ supabase' = "anon"
  /\ SubscriptionEffect(Env(s, supabase, activeListId, isCreatingList))
  /\ InitEffect(Env(s, supabase, activeListId, isCreatingList), CurrentState)
  /\ Intent
  /\ UNCHANGED <<mounted, remote, inserted, loaded>>

\* getToken of session s resolves: setSupabase(createSupabaseClient(token))
\* (supabase.ts 37-38), and the effects run for the new client.
TokenResolved(s) ==
  /\ tokenReqs[s] > 0
  /\ tokenReqs' = [tokenReqs EXCEPT ![s] = @ - 1]
  /\ supabase' = s
  /\ SubscriptionEffect(Env(session, s, activeListId, isCreatingList))
  /\ InitEffect(Env(session, s, activeListId, isCreatingList), CurrentState)
  /\ UNCHANGED <<mounted, session, remote, inserted, loaded, intents>>

\* A change-feed notification reaches the callback of the live channel (lines 51-53).
ChangeEvent ==
  /\ pendingEvents > 0
  /\ channels # <<>>
  /\ pendingEvents' = pendingEvents - 1
  /\ Start(channels[1], fetchTodoListsCall(channels[1], <<>>, CurrentState))
  /\ UNCHANGED <<mounted, session, supabase, tokenReqs, channels, subCleanup, remote,
                 nextId, inserted, loaded, intents>>

(* --------------------------- remote store ----------------------------- *)
(* The todo_lists table behind supabase.from('todo_lists').  Its rows are  *)
(* kept in the order of .order('updated_at', {ascending: false}): a write   *)
(* stamps updated_at, so the written row moves to the front.  The store's   *)
(* access policy is not part of the sources: a refused call is one of the   *)
(* failures of storeFails.                                                  *)

HasRow(rows, id) == \E i \in 1..Len(rows) : rows[i].id = id

RowOf(rows, id) == rows[CHOOSE i \in 1..Len(rows) : rows[i].id = id]

Without(rows, id) == Filter(rows, LAMBDA r : r.id # id)

\* The table after the request of a client whose user is uid
storeApply(rows, req, uid) ==
  CASE req.op = "insert" ->                       \* lines 142-151
         <<Row(req.id, req.name, req.todos, uid)>> \o rows
    [] req.op = "updateTodos" /\ HasRow(rows, req.id) ->   \* lines 119-125
         <<[RowOf(rows, req.id) EXCEPT !.todos = req.todos]>> \o Without(rows, req.id)
    [] req.op = "updateName" /\ HasRow(rows, req.id) ->    \* lines 199-205
         <<[RowOf(rows, req.id) EXCEPT !.name = req.name]>> \o Without(rows, req.id)
    [] req.op = "delete" -> Without(rows, req.id)          \* lines 177-180
    [] OTHER -> rows

\* The data of the reply (select: lines 82-86)
storeReply(rows, req, uid) ==
  IF req.op = "select" THEN Filter(rows, LAMBDA r : r.user_id = uid) ELSE <<>>

\* The owner of the row a write touches, for the filter of the change feed (line 49)
Touched(rows, req, uid) ==
  IF req.op = "insert" THEN {uid}
  ELSE IF req.op # "select" /\ HasRow(rows, req.id) THEN {RowOf(rows, req.id).user_id}
  ELSE {}

Notified(owners) == \E i \in 1..Len(channels) : UserOf(channels[i].session) \in owners

Replace(t, u) == (tasks (-) SetToBag({t})) (+) SetToBag({u})

\* The store carries out the request of task t and replies.
storeServes(t) ==
  /\ t.resp.st = "pending"
  /\ LET uid == UserOf(t.env.session) IN
     /\ remote' = storeApply(remote, t.req, uid)
     /\ inserted' = IF t.req.op = "insert" THEN inserted \cup {t.req.id} ELSE inserted
     /\ tasks' = Replace(t, [t EXCEPT !.resp = [st |-> "ok", data |-> storeReply(remote, t.req, uid)]])
     /\ pendingEvents' = IF Notified(Touched(remote, t.req, uid)) /\ pendingEvents < MaxEvents
                         THEN pendingEvents + 1 ELSE pendingEvents
  /\ UNCHANGED <<mounted, session, supabase, tokenReqs, lists, activeListId, isInitialized,
                 isCreatingList, channels, subCleanup, nextId, loaded, intents>>

\* The call of task t fails (network, permission): { error } comes back.
storeFails(t) ==
  /\ t.resp.st = "pending"
  /\ tasks' = Replace(t, [t EXCEPT !.resp = [st |-> "error", data |-> <<>>]])
  /\ UNCHANGED <<mounted, session, supabase, tokenReqs, lists, activeListId, isInitialized,
                 isCreatingList, channels, subCleanup, pendingEvents, remote, nextId,
                 inserted, loaded, intents>>

(* -------------------- continuations after an await -------------------- *)
EmptyResult(t) == t.resp.st = "ok" /\ Len(t.resp.data) = 0

\* fetchTodoLists goes on after the select (lines 88-112).
fetchTodoListsResponse(t) ==
  /\ t.resp.st # "pending"
  /\ Top(t).fn = "fetch"
  /\ EmptyResult(t) => nextId <= MaxId
  /\ Resume(t, fetchTodoListsResume(t.env, Callers(t), t.resp, CurrentState, nextId))
  /\ nextId' = IF EmptyResult(t) THEN nextId + 1 ELSE nextId
  /\ loaded' = TRUE
  /\ UNCHANGED <<mounted, session, supabase, tokenReqs, channels, subCleanup, pendingEvents,
                 remote, inserted, intents>>

\* createList goes on after the insert (lines 153-162).
createListResponse(t) ==
  /\ t.resp.st # "pending"
  /\ Top(t).fn = "create"
  /\ Resume(t, createListResume(t.env, Callers(t), Top(t).id, t.resp, CurrentState))
  /\ UNCHANGED <<mounted, session, supabase, tokenReqs, channels, subCleanup, pendingEvents,
                 remote, nextId, inserted, loaded, intents>>

\* deleteList goes on after the delete (lines 182-187).
deleteListResponse(t) ==
  /\ t.resp.st # "pending"
  /\ Top(t).fn = "delete"
  /\ Resume(t, deleteListResume(t.env, Callers(t), t.resp, CurrentState))
  /\ UNCHANGED <<mounted, session, supabase, tokenReqs, channels, subCleanup, pendingEvents,
                 remote, nextId, inserted, loaded, intents>>

\* syncList and updateListTitle after the update: an error is logged, nothing else
\* (lines 127-130, 207-210).
updateResponse(t) ==
  /\ t.resp.st # "pending"
  /\ Top(t).fn \in {"sync", "rename"}
  /\ Resume(t, Returned(Callers(t), CurrentState))
  /\ UNCHANGED <<mounted, session, supabase, tokenReqs, channels, subCleanup, pendingEvents,
                 remote, nextId, inserted, loaded, intents>>

(* --------------------------- user intents ----------------------------- *)
(* Handlers run from the latest render, so their closure is the current    *)
(* state.                                                                   *)
Others == <<mounted, session, supabase, tokenReqs, channels, subCleanup, pendingEvents,
            remote, inserted, loaded>>

\* lists.find(list => list.id === activeListId) (line 213)
HasActiveList == HasRow(lists, activeListId)

activeList == RowOf(lists, activeListId)

\* activeList?.todos || [] (line 214)
todos == IF HasActiveList THEN activeList.todos ELSE <<>>

\* lists.map(list => list.id === activeListId ? {...list, todos} : list) (lines 226-228)
WithTodos(ls, active, updatedTodos) ==
  Map(ls, LAMBDA l : IF l.id = active THEN [l EXCEPT !.todos = updatedTodos] ELSE l)

\* The test of the id forgotten at line 192: every list is renamed.
WithNameEverywhere(ls, active, newTitle) ==
  Map(ls, LAMBDA l : [l EXCEPT !.name = newTitle])

\* lists.map(list => list.id === activeListId ? {...list, name} : list) (lines 191-193)
WithName(ls, active, newTitle) ==
  Map(ls, LAMBDA l : IF l.id = active THEN [l EXCEPT !.name = newTitle] ELSE l)

\* The test of isSignedIn forgotten at line 116.
syncListSkipsWithoutClient(env) == env.supabase = "undefined"

\* syncList issues no call when signed out or without a client (line 116).
syncListSkips(env) == ~SignedIn(env.session) \/ env.supabase = "undefined"

\* syncList up to its await (lines 115-125)
syncListCall(env, listId, updatedTodos, st) ==
  IF syncListSkips(env) THEN Returned(<<>>, st)
  ELSE Suspended(<<Frame("sync", EmptyId)>>, Request("updateTodos", listId, "", updatedTodos), st)

\* setLists(updatedLists); syncList(activeListId, updatedTodos) (lines 230-231 and alike)
SetAndSync(updatedTodos) ==
  Start(CurrentEnv,
        syncListCall(CurrentEnv, activeListId, updatedTodos,
                     [CurrentState EXCEPT !.lists = WithTodos(lists, activeListId, updatedTodos)]))

\* handleCreateList (lines 286-295)
handleCreateList ==
  /\ mounted
  /\ IF isCreatingList THEN UNCHANGED <<lists, activeListId, isInitialized, isCreatingList,
                                        tasks, nextId>>
     ELSE /\ nextId <= MaxId
          /\ Start(CurrentEnv, createListCall(CurrentEnv, NewList(nextId), <<>>, CurrentState))
          /\ nextId' = nextId + 1
  /\ Intent
  /\ UNCHANGED Others

\* lists[0]?.id || '' of line 169; lists is the collection of the render
firstListId(ls) == IF ls # <<>> THEN ls[1].id ELSE EmptyId

\* The lists after the local removal (line 167)
removeList(ls, id) == Without(ls, id)

\* deleteList up to its await (lines 165-180); the sidebar offers the ids of lists
deleteList(id) ==
  /\ mounted
  /\ HasRow(lists, id)
  /\ IF ~isSignedIn
     THEN Start(CurrentEnv,
                Returned(<<>>, [CurrentState EXCEPT
                                  !.lists = removeList(lists, id),
                                  !.activeListId = IF activeListId = id
                                                   THEN firstListId(lists) ELSE @]))
     ELSE IF supabase = "undefined"
     THEN Start(CurrentEnv, Returned(<<>>, CurrentState))
     ELSE Start(CurrentEnv,
                Suspended(<<Frame("delete", EmptyId)>>, Request("delete", id, "", <<>>),
                          CurrentState))
  /\ UNCHANGED nextId
  /\ Intent
  /\ UNCHANGED Others

\* onSelectList={setActiveListId} (line 314)
onSelectList(id) ==
  /\ mounted
  /\ HasRow(lists, id)
  /\ id # activeListId
  /\ activeListId' = id
  /\ UNCHANGED <<lists, isInitialized, isCreatingList, tasks, nextId>>
  /\ Intent
  /\ UNCHANGED Others

\* updateListTitle (lines 190-205); the title is rendered only with an active list (321)
updateListTitle(newTitle) ==
  /\ HasActiveList
  /\ LET st == [CurrentState EXCEPT !.lists = WithName(lists, activeListId, newTitle)] IN
     IF syncListSkips(CurrentEnv)     \* line 196 is the test of line 116
     THEN Start(CurrentEnv, Returned(<<>>, st))
     ELSE Start(CurrentEnv,
                Suspended(<<Frame("rename", EmptyId)>>,
                          Request("updateName", activeListId, newTitle, <<>>), st))
  /\ UNCHANGED nextId
  /\ Intent
  /\ UNCHANGED Others

\* handleCreateTodo (lines 216-232)
handleCreateTodo ==
  /\ HasActiveList
  /\ Len(todos) < MaxTodos
  /\ nextId <= MaxId
  /\ SetAndSync(Append(todos, NewTodo(nextId)))
  /\ nextId' = nextId + 1
  /\ Intent
  /\ UNCHANGED Others

\* The spreads in the other order, {...updates, ...todo}: the old fields win.
MergeReversed(todo, updates) == todo

\* {...todo, ...updates} (line 236)
Merge(todo, updates) ==
  [f \in DOMAIN todo |-> IF f \in DOMAIN updates THEN updates[f] ELSE todo[f]]

\* The changes a TodoItem reports: the checkbox, and a title typed into a new item
Updates == {[completed |-> TRUE], [title |-> <<"a">>, isEmpty |-> FALSE]}

\* handleUpdateTodo (lines 234-245); the items rendered are those of todos (331)
handleUpdateTodo(id, updates) ==
  /\ HasRow(todos, id)
  /\ SetAndSync(Map(todos, LAMBDA t : IF t.id = id THEN Merge(t, updates) ELSE t))
  /\ UNCHANGED nextId
  /\ Intent
  /\ UNCHANGED Others

\* handleDeleteTodo (lines 247-255)
handleDeleteTodo(id) ==
  /\ HasRow(todos, id)
  /\ SetAndSync(Without(todos, id))
  /\ UNCHANGED nextId
  /\ Intent
  /\ UNCHANGED Others

\* The ids a TodoItem may hand to its callbacks
TodoIds == 1..MaxId

\* The copy keeps the id of the original: id: uuidv4() forgotten at line 263.
DuplicateKeepsId(todo, fresh) == [todo EXCEPT !.title = Append(@, " (copy)")]

\* {...todoToDuplicate, id: uuidv4(), title: `${title} (copy)`} (lines 261-265)
Duplicate(todo, fresh) == [todo EXCEPT !.id = fresh, !.title = Append(@, " (copy)")]

\* handleDuplicateTodo (lines 257-274), called by a rendered TodoItem (lines 327-338)
handleDuplicateTodo(id) ==
  /\ todos # <<>>
  /\ IF ~HasRow(todos, id)       \* line 259
     THEN UNCHANGED <<lists, activeListId, isInitialized, isCreatingList, tasks, nextId>>
     ELSE /\ Len(todos) < MaxTodos
          /\ nextId <= MaxId
          /\ SetAndSync(Append(todos, Duplicate(RowOf(todos, id), nextId)))
          /\ nextId' = nextId + 1
  /\ Intent
  /\ UNCHANGED Others

(* --------------------------- specification ---------------------------- *)
\* The rows the store may hold when the application loads: none (a new user), or
\* two lists of user u1, Work before Home by updated_at.
InitialRemote ==
  << Row(MaxId + 1, "Work", <<>>, "u1"), Row(MaxId + 2, "Home", <<>>, "u1") >>

Init ==
  /\ mounted = FALSE
  /\ session \in NoSession \cup Sessions
  /\ supabase = "undefined"
  /\ tokenReqs = [s \in Sessions |-> 0]
  /\ lists = <<>>
  /\ activeListId = EmptyId
  /\ isInitialized = FALSE
  /\ isCreatingList = FALSE
  /\ channels = <<>>
  /\ subCleanup = <<>>
  /\ pendingEvents = 0
  /\ tasks = EmptyBag
  /\ remote \in {<<>>, InitialRemote}
  /\ nextId = 1
  /\ inserted = {}
  /\ loaded = FALSE
  /\ intents = 0

Next ==
  \/ Mount
  \/ \E s \in {"null"} \cup Sessions : SessionChange(s)
  \/ \E s \in Sessions : TokenResolved(s)
  \/ ChangeEvent
  \/ \E t \in BagToSet(tasks) : storeServes(t)
  \/ \E t \in BagToSet(tasks) : storeFails(t)
  \/ \E t \in BagToSet(tasks) : fetchTodoListsResponse(t)
  \/ \E t \in BagToSet(tasks) : createListResponse(t)
  \/ \E t \in BagToSet(tasks) : deleteListResponse(t)
  \/ \E t \in BagToSet(tasks) : updateResponse(t)
  \/ handleCreateList
  \/ \E id \in Ids(lists) : deleteList(id)
  \/ \E id \in Ids(lists) : onSelectList(id)
  \/ \E newTitle \in Titles : updateListTitle(newTitle)
  \/ handleCreateTodo
  \/ \E id \in Ids(todos), updates \in Updates : handleUpdateTodo(id, updates)
  \/ \E id \in Ids(todos) : handleDeleteTodo(id)
  \/ \E id \in TodoIds : handleDuplicateTodo(id)

Spec == Init /\ [][Next]_vars

\* The user never signs in: the mount, the session settling to null, and the
\* intents of the user.
InitLocal == Init /\ session \in NoSession

NextLocal ==
  \/ Mount
  \/ SessionChange("null")
  \/ handleCreateList
  \/ \E id \in Ids(lists) : deleteList(id)
  \/ \E id \in Ids(lists) : onSelectList(id)
  \/ \E newTitle \in Titles : updateListTitle(newTitle)
  \/ handleCreateTodo
  \/ \E id \in Ids(todos), updates \in Updates : handleUpdateTodo(id, updates)
  \/ \E id \in Ids(todos) : handleDeleteTodo(id)
  \/ \E id \in TodoIds : handleDuplicateTodo(id)

SpecLocal == InitLocal /\ [][NextLocal]_vars

\* One authenticated session from load on, in which no remote call fails: the
\* mount, the token, the store's service, the change feed, the continuations and
\* the intents of the user.
InitSync == Init /\ session \in Sessions

NextSync ==
  \/ Mount
  \/ \E s \in Sessions : TokenResolved(s)
  \/ ChangeEvent
  \/ \E t \in BagToSet(tasks) : storeServes(t)
  \/ \E t \in BagToSet(tasks) : fetchTodoListsResponse(t)
  \/ \E t \in BagToSet(tasks) : createListResponse(t)
  \/ \E t \in BagToSet(tasks) : deleteListResponse(t)
  \/ \E t \in BagToSet(tasks) : updateResponse(t)
  \/ handleCreateList
  \/ \E id \in Ids(lists) : deleteList(id)
  \/ \E id \in Ids(lists) : onSelectList(id)
  \/ \E newTitle \in Titles : updateListTitle(newTitle)
  \/ handleCreateTodo
  \/ \E id \in Ids(todos), updates \in Updates : handleUpdateTodo(id, updates)
  \/ \E id \in Ids(todos) : handleDeleteTodo(id)
  \/ \E id \in TodoIds : handleDuplicateTodo(id)

SpecSync == InitSync /\ [][NextSync]_vars

(* ------------------------------ claims -------------------------------- *)
InMemory(id) == id \in Ids(lists)

\* C1: in every reachable state activeListId is the empty string or the id of a
\* list of the in-memory collection.
C1_ActiveListExists == activeListId = EmptyId \/ InMemory(activeListId)

CreateFrames(t) == {i \in 1..Len(t.stack) : t.stack[i].fn = "create"}

CreatesInFlight == {<<t, i>> \in BagToSet(tasks) \X (1..(2 * MaxTasks + 2 * MaxId)) : i \in CreateFrames(t)}

\* C2: createList is single-flight: while one createList has not resolved, no
\* second createList gets past the guard, so at most one is in flight.
C2_SingleFlight == Cardinality(CreatesInFlight) <= 1

\* The default list of a top-level fetchTodoLists of task t that took the empty
\* branch (EmptyId when it did not): the id of its suspended frame, or the id it
\* mints in this step.
DefaultOf(t) ==
  IF t.stack[1].fn # "fetch" THEN EmptyId
  ELSE IF Len(t.stack) > 1 THEN t.stack[1].id
  ELSE IF t.resp.st # "pending" /\ EmptyResult(t) THEN nextId
  ELSE EmptyId

Finishes(t) == tasks' = tasks (-) SetToBag({t}) /\ t.resp.st # "pending"

\* C3: when a fetchTodoLists that received an empty result finishes, its default
\* list ("My Tasks", no todos) has been created in the remote store, the
\* collection is exactly that list and activeListId is its id.
C3_EmptyFetchCreatesDefault ==
  [][\A t \in BagToSet(tasks) :
       (Finishes(t) /\ DefaultOf(t) # EmptyId) =>
         /\ lists' = <<DefaultList(DefaultOf(t))>>
         /\ activeListId' = DefaultOf(t)
         /\ DefaultOf(t) \in inserted']_vars

\* C4: an unauthenticated deleteList of the active list leaves the first remaining
\* list active, or no list when none remains, whatever the position of the
\* deleted list.
C4_DeleteActiveFallsBack ==
  [][\A id \in Ids(lists) :
       (deleteList(id) /\ ~isSignedIn /\ activeListId = id) =>
         activeListId' = IF lists' # <<>> THEN lists'[1].id ELSE EmptyId]_vars

\* C5: when the first select response after load is a non-empty result, the
\* collection becomes that result and its first list becomes the active list.
C5_FirstFetchActivatesFirst ==
  [][\A t \in BagToSet(tasks) :
       (fetchTodoListsResponse(t) /\ ~loaded /\ Len(t.stack) = 1
          /\ t.resp.st = "ok" /\ Len(t.resp.data) > 0) =>
         /\ lists' = t.resp.data
         /\ activeListId' = t.resp.data[1].id]_vars

\* C6: for an unauthenticated user the mount effects synthesize one list, named
\* "My Tasks", without todos, and make it active; no later run of the
\* initialization effect (a session change, a rebuilt client) synthesizes another.
C6_OneLocalDefault ==
  [][~isSignedIn' =>
       /\ Mount => /\ lists' = <<[id |-> nextId, name |-> "My Tasks", todos |-> <<>>]>>
                   /\ activeListId' = nextId
                   /\ nextId' = nextId + 1
       /\ \A s \in {"null"} \cup Sessions :
            SessionChange(s) => UNCHANGED <<lists, activeListId, nextId>>
       /\ \A s \in Sessions :
            TokenResolved(s) => UNCHANGED <<lists, activeListId, nextId>>]_vars

\* The initialization effect has run again after the mount of a signed-out user
\* (the session went from undefined to null) and the one default list is there.
C6_Witness ==
  /\ mounted /\ session = "null" /\ supabase = "anon" /\ intents = 1
  /\ tokenReqs["s1"] = 0 /\ tasks = EmptyBag /\ ~loaded
  /\ lists = <<DefaultList(1)>> /\ activeListId = 1 /\ nextId = 2

(* The mutations as section 4.1 of the specification states them. *)
RefAppend(ls, l) == ls \o <<l>>

RefMapActive(ls, active, F(_)) ==
  [i \in 1..Len(ls) |-> IF ls[i].id = active THEN F(ls[i]) ELSE ls[i]]

RefActiveTodos(ls, active) ==
  IF \E i \in 1..Len(ls) : ls[i].id = active
  THEN ls[CHOOSE i \in 1..Len(ls) : ls[i].id = active].todos ELSE <<>>

RefSetTodos(ls, active, ts) == RefMapActive(ls, active, LAMBDA l : [l EXCEPT !.todos = ts])

RefCreateList(ls, creating, id) ==
  IF creating THEN ls ELSE RefAppend(ls, [id |-> id, name |-> "Untitled List", todos |-> <<>>])

RefDeleteList(ls, id) == SelectSeq(ls, LAMBDA l : l.id # id)

RefRename(ls, active, title) == RefMapActive(ls, active, LAMBDA l : [l EXCEPT !.name = title])

RefCreateTodo(ls, active, id) ==
  RefSetTodos(ls, active,
    RefAppend(RefActiveTodos(ls, active),
              [id |-> id, title |-> <<>>, completed |-> FALSE, level |-> 0, isEmpty |-> TRUE]))

RefUpdateTodo(ls, active, id, updates) ==
  LET ts == RefActiveTodos(ls, active) IN
  RefSetTodos(ls, active,
    [i \in 1..Len(ts) |->
       IF ts[i].id = id
       THEN [f \in DOMAIN ts[i] |-> IF f \in DOMAIN updates THEN updates[f] ELSE ts[i][f]]
       ELSE ts[i]])

RefDeleteTodo(ls, active, id) ==
  RefSetTodos(ls, active, SelectSeq(RefActiveTodos(ls, active), LAMBDA t : t.id # id))

RefDuplicateTodo(ls, active, id, fresh) ==
  LET ts == RefActiveTodos(ls, active)
      o == ts[CHOOSE i \in 1..Len(ts) : ts[i].id = id]
  IN RefSetTodos(ls, active,
       RefAppend(ts, [id |-> fresh, title |-> o.title \o <<" (copy)">>,
                      completed |-> o.completed, level |-> o.level, isEmpty |-> o.isEmpty]))

\* C7: while the user is unauthenticated no mutation issues a remote call, and
\* each mutation leaves the collection that the operation yields when applied to
\* the collection before it.
C7_LocalMutations ==
  [][~isSignedIn =>
       /\ (intents' = intents + 1 /\ session' = session) => tasks' = tasks
       /\ handleCreateList => lists' = RefCreateList(lists, isCreatingList, nextId)
       /\ \A id \in Ids(lists) : deleteList(id) => lists' = RefDeleteList(lists, id)
       /\ \A title \in Titles :
            updateListTitle(title) => lists' = RefRename(lists, activeListId, title)
       /\ handleCreateTodo => lists' = RefCreateTodo(lists, activeListId, nextId)
       /\ \A id \in Ids(todos) :
            /\ \A updates \in Updates :
                 handleUpdateTodo(id, updates) =>
                   lists' = RefUpdateTodo(lists, activeListId, id, updates)
            /\ handleDeleteTodo(id) => lists' = RefDeleteTodo(lists, activeListId, id)
            /\ handleDuplicateTodo(id) =>
                 lists' = RefDuplicateTodo(lists, activeListId, id, nextId)]_vars

\* A signed-out user with an anonymous client has created a second list and a
\* todo in it and has completed the todo: three local mutations, no call in flight.
C7_Witness ==
  /\ ~isSignedIn /\ supabase = "anon" /\ tasks = EmptyBag /\ remote = <<>>
  /\ Len(lists) = 2 /\ HasActiveList /\ activeListId = lists[2].id
  /\ Len(todos) = 1 /\ todos[1].completed

\* C8: at most one change-feed subscription is live; one is live only while the
\* user is signed in with a client; and the live one is that of the current
\* session and the current client, the previous one having been removed.
C8_OneSubscription ==
  /\ Len(channels) <= 1
  /\ channels # <<>> =>
       /\ isSignedIn /\ supabase # "undefined"
       /\ channels[1].session = session
       /\ channels[1].supabase = supabase

\* The subscription of the client bound to the session is live, and a fetch of an
\* earlier subscription's time has already been answered.
C8_Witness ==
  /\ Len(channels) = 1 /\ channels[1].supabase = "s1" /\ session = "s1"
  /\ loaded /\ intents >= 2

Issued == Cardinality({t \in BagToSet(tasks') : t.resp.st = "pending"})
            > Cardinality({t \in BagToSet(tasks) : t.resp.st = "pending"})

\* C9: while the user is signed in and the client is not the one bound to the
\* session's credential, no remote operation is issued, and createList and
\* deleteList still change the in-memory collection.
C9_LocalOnlyWithoutBoundClient ==
  [][(isSignedIn' /\ supabase' # session') =>
       /\ ~Issued
       /\ (isSignedIn /\ supabase # session) =>
            /\ (handleCreateList /\ ~isCreatingList) => lists' = RefAppend(lists, NewList(nextId))
            /\ \A id \in Ids(lists) : deleteList(id) => lists' = RefDeleteList(lists, id)]_vars

\* C10: once no token fetch is pending, the client in use is the one bound to the
\* current session, or the anonymous client when there is no session.
C10_ClientMatchesSession ==
  (mounted /\ \A s \in Sessions : tokenReqs[s] = 0) =>
     supabase = (IF isSignedIn THEN session ELSE "anon")

\* The continuation of task t runs on its response.
Handled(t) ==
  \/ fetchTodoListsResponse(t)
  \/ createListResponse(t)
  \/ deleteListResponse(t)
  \/ updateResponse(t)

Writes == {"insert", "updateTodos", "updateName", "delete"}

\* C11: handling the failure of a remote persistence call (a todo update, a
\* rename, an insert or a delete) leaves the list collection and activeListId as
\* they were just before the failure was delivered.
C11_FailureKeepsState ==
  [][\A t \in BagToSet(tasks) :
       (t.resp.st = "error" /\ t.req.op \in Writes /\ Handled(t)) =>
         /\ lists' = lists
         /\ activeListId' = activeListId]_vars

\* The user's createList of task t has had its insert accepted: it is suspended in
\* the refresh, or further down.
Refreshing(t) == t.stack[1].fn = "create" /\ Len(t.stack) > 1

\* C12: an authenticated createList issues its refresh only once its insert has
\* been accepted; when it finishes after an accepted insert, activeListId is the
\* list's id and the collection holds a list with that id; when the insert of a
\* createList of the user fails it issues no refresh and changes neither the
\* collection nor activeListId.
C12_CreateThenRefresh ==
  [][\A t \in BagToSet(tasks) :
       /\ (createListResponse(t) /\ Issued) =>
            t.req.op = "insert" /\ t.resp.st = "ok" /\ Top(t).id \in inserted
       /\ (Finishes(t) /\ Refreshing(t)) =>
            /\ activeListId' = t.stack[1].id
            /\ t.stack[1].id \in Ids(lists')
       /\ (createListResponse(t) /\ t.resp.st = "error" /\ Len(t.stack) = 1) =>
            /\ ~Issued
            /\ lists' = lists
            /\ activeListId' = activeListId]_vars

C14_UpdateMergesAndSyncs ==
  [][\A id \in Ids(todos), updates \in Updates :
       handleUpdateTodo(id, updates) =>
         /\ Len(todos') = Len(todos)
         /\ \A i \in 1..Len(todos) :
              IF todos[i].id = id
              THEN /\ DOMAIN todos'[i] = DOMAIN todos[i]
                   /\ \A f \in DOMAIN todos[i] :
                        todos'[i][f] = IF f \in DOMAIN updates THEN updates[f] ELSE todos[i][f]
              ELSE todos'[i] = todos[i]
         /\ (isSignedIn /\ supabase # "undefined") =>
              \E u \in BagToSet(tasks') :
                /\ tasks' = tasks (+) SetToBag({u})
                /\ u.resp.st = "pending"
                /\ u.req.op = "updateTodos"
                /\ u.req.id = activeListId
                /\ u.req.todos = todos']_vars

\* A signed-in user has completed a todo and the update carrying the whole
\* sequence is on its way to the store.
C14_Witness ==
  /\ isSignedIn /\ supabase = session
  /\ Len(todos) >= 1 /\ todos[1].completed
  /\ \E u \in BagToSet(tasks) :
       u.req.op = "updateTodos" /\ u.req.id = activeListId /\ u.req.todos = todos
         /\ u.resp.st = "pending"

\* What an update of the active list leaves alone
ActiveOnly ==
  /\ Len(lists') = Len(lists)
  /\ \A i \in 1..Len(lists) :
       /\ lists'[i].id = lists[i].id
       /\ lists[i].id # activeListId => lists'[i] = lists[i]
  /\ activeListId' = activeListId

\* C15: updateListTitle, createTodo, updateTodo, deleteTodo and duplicateTodo leave
\* every non-active list, the number and order of the lists, and activeListId
\* unchanged.
C15_OtherListsUntouched ==
  [][/\ (\E title \in Titles : updateListTitle(title)) => ActiveOnly
     /\ handleCreateTodo => ActiveOnly
     /\ (\E id \in Ids(todos), updates \in Updates : handleUpdateTodo(id, updates)) => ActiveOnly
     /\ (\E id \in Ids(todos) : handleDeleteTodo(id)) => ActiveOnly
     /\ (\E id \in TodoIds : handleDuplicateTodo(id)) => ActiveOnly]_vars

\* Two lists with different names, the active one renamed and given a todo.
C15_Witness ==
  /\ Len(lists) = 2 /\ HasActiveList
  /\ activeList.name \in Titles /\ Len(todos) = 1
  /\ \E i \in 1..2 : lists[i].id # activeListId /\ lists[i].name \notin Titles
                      /\ lists[i].todos = <<>>

\* The initialization effect did its step: it issued the fetch or it synthesized
\* the default list (in a mount, session or client step nothing else does either).
InitStep == tasks' # tasks \/ nextId' # nextId

\* C16: the initialization step is performed once for each authentication-state
\* transition: at the load and at each change of isSignedIn, and not again when
\* only the user object or the client instance changes.
C16_InitOncePerAuthTransition ==
  [][/\ Mount => InitStep
     /\ \A s \in {"null"} \cup Sessions :
          SessionChange(s) => (InitStep <=> SignedIn(s) # isSignedIn)
     /\ \A s \in Sessions : TokenResolved(s) => ~InitStep]_vars

\* Nothing is on its way: no token fetch, no remote call or response, no
\* change-feed event; and the first fetch has been handled.
Quiescent ==
  /\ mounted /\ loaded
  /\ \A s \in Sessions : tokenReqs[s] = 0
  /\ tasks = EmptyBag
  /\ pendingEvents = 0

\* The id, name and todo sequence of each list or row, in order
Mirror(rows) == [i \in 1..Len(rows) |-> TodoList(rows[i].id, rows[i].name, rows[i].todos)]

OwnRows == SelectSeq(remote, LAMBDA r : r.user_id = user)

\* C17: in an authenticated session without failures, once every remote call,
\* fetch response and change-feed event has been delivered, the in-memory
\* collection equals the current user's lists in the remote store (ids, names
\* and todo sequences).
C17_Converges == Quiescent => Mirror(lists) = Mirror(OwnRows)

\* The default lists of the empty-result branches of task t: those of its
\* fetchTodoLists frames suspended at line 105, and the one its continuation
\* makes in this step.
DefaultsOf(t) ==
  {t.stack[i].id : i \in {j \in 1..Len(t.stack) :
                            t.stack[j].fn = "fetch" /\ t.stack[j].id # EmptyId}}
    \cup (IF Top(t).fn = "fetch" /\ EmptyResult(t) THEN {nextId} ELSE {})

\* C18: whenever the empty-result branch of fetchTodoLists installs its default
\* list as the collection and the active list, the store has accepted the insert
\* of that list.
C18_InstalledDefaultIsStored ==
  [][\A t \in BagToSet(tasks) : \A d \in DefaultsOf(t) :
       (Handled(t) /\ lists' = <<DefaultList(d)>> /\ activeListId' = d) =>
         d \in inserted']_vars

\* Every createList that got past the guard has resolved.
NoCreateInFlight == CreatesInFlight = {}

\* C19: a createList that got past the guard resets the flag when it resolves,
\* whether its insert and its refresh succeed or fail: with no createList in
\* flight the flag is false, and a createList issued then (by the user, or by
\* fetchTodoLists for its default list) is not dropped by the guard.
C19_GuardReleased ==
  [][/\ NoCreateInFlight' => ~isCreatingList'
     /\ NoCreateInFlight =>
          /\ handleCreateList => ~createListGuard(CurrentEnv)
          /\ \A t \in BagToSet(tasks) :
               (fetchTodoListsResponse(t) /\ EmptyResult(t)) => ~createListGuard(t.env)]_vars

====
